---- MODULE Spec2Model ----
(***************************************************************************)
(* Model of the clhaskell infrastructure declaration (AWS CDK, TypeScript). *)
(*                                                                         *)
(*   Spec       the top-level composition of infra/bin/app.ts: load the    *)
(*              configuration, validate it, declare the stacks, synth.     *)
(*   SpecDeploy the provisioning engine applying the declared graph in any *)
(*              order that respects the declared dependency edges.         *)
(*   SpecDns    the DnsStack constructor on arbitrary trustedAccounts.     *)
(*                                                                         *)
(* Strings the code takes apart or compares character by character are     *)
(* sequences of one-character strings; JavaScript values that may be       *)
(* undefined are records [def, s].                                         *)
(***************************************************************************)
EXTENDS Integers, Sequences, FiniteSets, TLC

----------------------------------------------------------------------------
(* JavaScript strings and values *)

UpperChars ==
  <<"A","B","C","D","E","F","G","H","I","J","K","L","M",
    "N","O","P","Q","R","S","T","U","V","W","X","Y","Z">>

LowerChars ==
  <<"a","b","c","d","e","f","g","h","i","j","k","l","m",
    "n","o","p","q","r","s","t","u","v","w","x","y","z">>

\* String.prototype.toLowerCase, one character
LowerChar(c) ==
  IF \E i \in 1..Len(UpperChars) : UpperChars[i] = c
  THEN LowerChars[CHOOSE i \in 1..Len(UpperChars) : UpperChars[i] = c]
  ELSE c

\* String.prototype.toLowerCase
toLowerCase(s) == [i \in 1..Len(s) |-> LowerChar(s[i])]

\* the JavaScript value undefined
Undefined == [def |-> FALSE, s |-> <<>>]

\* a JavaScript string value
Str(s) == [def |-> TRUE, s |-> s]

\* JavaScript truthiness of a string-or-undefined value
Truthy(x) == x.def /\ x.s # <<>>

\* the JavaScript operator a || b
Or(a, b) == IF Truthy(a) THEN a ELSE b

\* interpolation of a value inside a template literal
Interp(x) == IF x.def THEN x.s ELSE <<"u","n","d","e","f","i","n","e","d">>

\* s ends with suffix t
EndsWith(s, t) ==
  /\ Len(t) <= Len(s)
  /\ SubSeq(s, Len(s) - Len(t) + 1, Len(s)) = t

\* t occurs in s
Contains(s, t) ==
  \E i \in 1..(Len(s) - Len(t) + 1) : SubSeq(s, i, i + Len(t) - 1) = t

Dot == <<".">>

----------------------------------------------------------------------------
(* Values the configuration is drawn from *)

gamma == <<"g","a","m","m","a">>
prod == <<"p","r","o","d">>
Www == <<"w","w","w",".">>
UsEast1 == <<"u","s","-","e","a","s","t","-","1">>

\* the list of required fields with repoName forgotten
requiredWithoutRepoName ==
  <<"dnsAccount", "gammaAccount", "prodAccount", "domainName", "repoOwner">>

\* app.ts:27-34
requiredEnvironmentVars ==
  <<"dnsAccount", "gammaAccount", "prodAccount", "domainName", "repoOwner", "repoName">>

\* the keys read by app.ts:12-24
ConfigKeys ==
  {"dnsAccount", "gammaAccount", "prodAccount", "domainName", "region", "repoOwner", "repoName"}

\* process.env names read by app.ts:12-24 (region has none)
EnvVarOf ==
  [dnsAccount |-> "DNS_ACCOUNT_ID", gammaAccount |-> "GAMMA_ACCOUNT_ID",
   prodAccount |-> "PROD_ACCOUNT_ID", domainName |-> "DOMAIN_NAME",
   repoOwner |-> "GITHUB_REPOSITORY_OWNER", repoName |-> "REPO_NAME"]

EnvVars == {EnvVarOf[k] : k \in DOMAIN EnvVarOf}

\* field.toUpperCase() on the six required field names
UpperOf ==
  [dnsAccount |-> "DNSACCOUNT", gammaAccount |-> "GAMMAACCOUNT",
   prodAccount |-> "PRODACCOUNT", domainName |-> "DOMAINNAME",
   repoOwner |-> "REPOOWNER", repoName |-> "REPONAME"]

\* a value given with --context for each key
CtxValue ==
  [dnsAccount |-> <<"1","1","1">>, gammaAccount |-> <<"2","2","2">>,
   prodAccount |-> <<"3","3","3">>, domainName |-> <<"e","x",".","i","o">>,
   region |-> <<"e","u","-","w","e","s","t","-","1">>,
   repoOwner |-> <<"o","r","g">>, repoName |-> <<"s","i","t","e">>]

\* a value given in the environment for each variable
EnvValue ==
  [DNS_ACCOUNT_ID |-> <<"9","9","9">>, GAMMA_ACCOUNT_ID |-> <<"3","3","3">>,
   PROD_ACCOUNT_ID |-> <<"2","2","2">>, DOMAIN_NAME |-> <<"a",".","c","o">>,
   GITHUB_REPOSITORY_OWNER |-> <<"m","e">>, REPO_NAME |-> <<"w","e","b">>]

\* at most this many configuration keys depart from "given with --context only"
MaxVaried == 2

----------------------------------------------------------------------------
(* The DNS delegation component: infra/lib/dns-stack.ts *)

\* IAM StringLike: "*" matches any run of characters, "?" any one character
RECURSIVE StringLike(_, _)
StringLike(s, p) ==
  IF p = <<>> THEN s = <<>>
  ELSE IF Head(p) = "*"
       THEN \/ StringLike(s, Tail(p))
            \/ (s # <<>> /\ StringLike(Tail(s), p))
       ELSE /\ s # <<>>
            /\ (Head(p) = "?" \/ Head(p) = Head(s))
            /\ StringLike(Tail(s), Tail(p))

\* `CrossAccountDnsManagementRole-${stageName}`: the template and what fills it
RoleName(stageName) ==
  [prefix |-> "CrossAccountDnsManagementRole-", stageName |-> stageName]

\* the pattern with the stage name left out: `*.${props.domainName}`
RecordNamePatternNoStage(stageName, domainName) ==
  <<"*">> \o Dot \o domainName

\* the pattern with a dot after the wildcard: `*.${stageName}.${props.domainName}`
RecordNamePatternDotted(stageName, domainName) ==
  <<"*", ".">> \o stageName \o Dot \o domainName

\* dns-stack.ts:54 `*${stageName}.${props.domainName}`
RecordNamePattern(stageName, domainName) ==
  <<"*">> \o stageName \o Dot \o domainName

\* dns-stack.ts:28-63, the role declared for one entry of trustedAccounts
CrossAccountRole(entry, domainName) ==
  [logicalId |-> RoleName(entry.stageName),
   roleName |-> RoleName(entry.stageName),
   assumedBy |-> entry.account,
   statements |->
     << [actions |-> {"route53:ListHostedZonesByName"}, resources |-> "*",
         recordNames |-> <<>>],
        [actions |-> {"route53:GetHostedZone"}, resources |-> "RootHostedZone",
         recordNames |-> <<>>],
        [actions |-> {"route53:ChangeResourceRecordSets"},
         resources |-> "RootHostedZone",
         recordNames |-> << RecordNamePattern(entry.stageName, domainName) >>] >>]

\* a resource of a stack: its construct id and, for the ids built in a loop,
\* the iteration that built it
Res(name) == <<name, 0>>

\* the entries of trustedAccounts whose account no earlier entry has
RECURSIVE FirstOfEachAccount(_, _)
FirstOfEachAccount(entries, seen) ==
  IF entries = <<>> THEN <<>>
  ELSE IF Head(entries).account \in seen
       THEN FirstOfEachAccount(Tail(entries), seen)
       ELSE <<Head(entries)>>
              \o FirstOfEachAccount(Tail(entries), seen \cup {Head(entries).account})

\* a DnsStack that makes one role per distinct account
DnsStackDedup(id, props) ==
  LET entries == FirstOfEachAccount(props.trustedAccounts, {}) IN
  [id |-> id,
   type |-> "DnsStack",
   env |-> props.env,
   resources |-> {Res("RootHostedZone")}
                   \cup {<<"CrossAccountDnsManagementRole", k>> : k \in 1..Len(entries)},
   dependsOn |-> {<< <<"CrossAccountDnsManagementRole", k>>, Res("RootHostedZone") >> :
                    k \in 1..Len(entries)},
   hostedZone |-> [zoneName |-> props.domainName],
   roles |-> [k \in 1..Len(entries) |-> CrossAccountRole(entries[k], props.domainName)],
   outputs |-> [k \in 1..Len(entries) |->
                  [logicalId |-> [prefix |-> "CrossAccountRoleArn-",
                                  stageName |-> entries[k].stageName]]]]

\* dns-stack.ts:15-89; trustedAccounts is the sequence Object.entries yields
DnsStack(id, props) ==
  [id |-> id,
   type |-> "DnsStack",
   env |-> props.env,
   resources |-> {Res("RootHostedZone")}
                   \cup {<<"CrossAccountDnsManagementRole", k>> :
                           k \in 1..Len(props.trustedAccounts)},
   dependsOn |-> {<< <<"CrossAccountDnsManagementRole", k>>, Res("RootHostedZone") >> :
                    k \in 1..Len(props.trustedAccounts)},
   hostedZone |-> [zoneName |-> props.domainName],
   roles |-> [k \in 1..Len(props.trustedAccounts) |->
                CrossAccountRole(props.trustedAccounts[k], props.domainName)],
   outputs |-> [k \in 1..Len(props.trustedAccounts) |->
                  [logicalId |-> [prefix |-> "CrossAccountRoleArn-",
                                  stageName |-> props.trustedAccounts[k].stageName]]]]

\* the record names a role may change in the root zone: the statement allows
\* route53:ChangeResourceRecordSets and some pattern of its
\* ForAnyValue:StringLike condition matches the name
MayChangeRecord(role, recordName) ==
  \E k \in 1..Len(role.statements) :
    /\ "route53:ChangeResourceRecordSets" \in role.statements[k].actions
    /\ \E j \in 1..Len(role.statements[k].recordNames) :
         StringLike(recordName, role.statements[k].recordNames[j])

----------------------------------------------------------------------------
(* The static website hosting component: infra/lib/static-website-stack.ts *)

\* Stack.formatArn, static-website-stack.ts:54-60
FormatArn(account, service, resource, resourceName) ==
  [service |-> service, region |-> <<>>, account |-> account,
   resource |-> resource, resourceName |-> resourceName]

\* String.prototype.toUpperCase, one character
UpperChar(c) ==
  IF \E i \in 1..Len(LowerChars) : LowerChars[i] = c
  THEN UpperChars[CHOOSE i \in 1..Len(LowerChars) : LowerChars[i] = c]
  ELSE c

\* capitalizeFirstLetter of the earlier static-website-stack.ts
capitalizeFirstLetter(val) ==
  IF val = <<>> THEN <<>> ELSE <<UpperChar(Head(val))>> \o Tail(val)

\* the ARN of the earlier static-website-stack.ts:
\* `CrossAccountDnsManagementRole-${capitalizeFirstLetter(props.stageName)}`
DelegationRoleArnCapitalized(props) ==
  FormatArn(props.dnsAccountId, "iam", "role",
            RoleName(capitalizeFirstLetter(props.stageName)))

\* static-website-stack.ts:54-67
DelegationRoleArn(props) ==
  FormatArn(props.dnsAccountId, "iam", "role", RoleName(props.stageName))

\* the certificate validated in the stack's own zone, as fromDns(zone) would
SubdomainCertificateZoneValidated(props) ==
  [domainName |-> props.domainName,
   subjectAlternativeNames |->
     IF props.stageName = prod THEN << props.rootHostedZoneName >> ELSE <<>>,
   validation |-> [method |-> "DNS", hostedZone |-> "subdomainHostedZone"]]

\* the certificate with the prod alternative name forgotten
SubdomainCertificateNoAlternativeNames(props) ==
  [domainName |-> props.domainName,
   subjectAlternativeNames |-> <<>>,
   validation |-> [method |-> "DNS", hostedZone |-> "none"]]

\* static-website-stack.ts:87-94
SubdomainCertificate(props) ==
  [domainName |-> props.domainName,
   subjectAlternativeNames |->
     IF props.stageName = prod THEN << props.rootHostedZoneName >> ELSE <<>>,
   validation |-> [method |-> "DNS", hostedZone |-> "none"]]

\* static-website-stack.ts:109-129
Distribution(props) ==
  [domainNames |->
     IF props.stageName = prod
     THEN << props.rootHostedZoneName, props.domainName >>
     ELSE << props.domainName >>,
   certificate |-> "SubdomainCertificate",
   origin |-> "SiteBucket",
   defaultRootObject |-> "index.html"]

\* static-website-stack.ts:96-104 and 141-150
CrossAccountZoneDelegationRecord(logicalId, props) ==
  [logicalId |-> logicalId,
   delegationRole |-> DelegationRoleArn(props),
   delegatedZone |-> "subdomainHostedZone",
   delegatedZoneName |-> props.domainName,
   parentHostedZoneName |-> props.rootHostedZoneName]

\* the resources a StaticWebsiteStack declares
WebsiteResources ==
  {"SiteBucket", "OAI", "subdomainHostedZone", "SubdomainCertificate",
   "DelegationRecord", "Distribution", "AliasRecord",
   "subdomainDelegationRecord", "WebsiteDeployment"}

\* the stack without the addDependency call
NoAddedDependencies == {}

\* static-website-stack.ts:106, certificate.node.addDependency(delegationRecord)
AddedDependencies == { <<"SubdomainCertificate", "DelegationRecord">> }

\* the references of a stack whose distribution is given no certificate
WebsiteReferencesNoCertificate ==
  { <<"DelegationRecord", "subdomainHostedZone">>,
    <<"subdomainDelegationRecord", "subdomainHostedZone">>,
    <<"Distribution", "SiteBucket">>,
    <<"AliasRecord", "subdomainHostedZone">>,
    <<"AliasRecord", "Distribution">>,
    <<"WebsiteDeployment", "SiteBucket">>,
    <<"WebsiteDeployment", "Distribution">> }

\* the resources each resource of a StaticWebsiteStack refers to in its
\* properties (static-website-stack.ts:45-166)
WebsiteReferences ==
  { <<"DelegationRecord", "subdomainHostedZone">>,
    <<"subdomainDelegationRecord", "subdomainHostedZone">>,
    <<"Distribution", "SiteBucket">>,
    <<"Distribution", "SubdomainCertificate">>,
    <<"AliasRecord", "subdomainHostedZone">>,
    <<"AliasRecord", "Distribution">>,
    <<"WebsiteDeployment", "SiteBucket">>,
    <<"WebsiteDeployment", "Distribution">> }

\* static-website-stack.ts:41-193
StaticWebsiteStack(id, props) ==
  [id |-> id,
   type |-> "StaticWebsiteStack",
   env |-> props.env,
   stageName |-> props.stageName,
   bucket |-> [bucketName |-> [stageName |-> props.stageName,
                               infix |-> "-website-",
                               account |-> props.env.account],
               publicReadAccess |-> FALSE],
   subdomainHostedZone |-> [zoneName |-> props.domainName],
   certificate |-> SubdomainCertificate(props),
   delegationRecord |->
     CrossAccountZoneDelegationRecord(
       [prefix |-> "DelegationRecord-", stageName |-> props.stageName], props),
   distribution |-> Distribution(props),
   aliasRecord |-> [zone |-> "subdomainHostedZone", recordName |-> props.domainName,
                    target |-> "Distribution"],
   crossAccountDelegationRecord |->
     CrossAccountZoneDelegationRecord(
       [prefix |-> "subdomainDelegationRecord", stageName |-> <<>>], props),
   resources |-> {Res(n) : n \in WebsiteResources},
   dependsOn |-> {<<Res(d[1]), Res(d[2])>> : d \in WebsiteReferences \cup AddedDependencies}]

----------------------------------------------------------------------------
(* The CI role component: infra/lib/github-actions-stack.ts *)

\* the resources a GitHubActionsRoleStack declares
GitHubResources == {"GitHubOIDCProvider", "GitHubActionsDeployRole"}

\* the role's trust policy refers to the provider's ARN
GitHubReferences == { <<"GitHubActionsDeployRole", "GitHubOIDCProvider">> }

RepoColon == <<"r","e","p","o",":">>

\* the subject claim without the colon that ends the repository name
SubjectClaimNoColon(props) ==
  RepoColon \o Interp(props.repoOwner) \o <<"/">> \o Interp(props.repoName) \o <<"*">>

\* github-actions-stack.ts:56 `repo:${props.repoOwner}/${props.repoName}:*`
SubjectClaim(props) ==
  RepoColon \o Interp(props.repoOwner) \o <<"/">> \o Interp(props.repoName) \o <<":", "*">>

\* github-actions-stack.ts:114-120; formatArn takes the stack's own account
\* when the account component is undefined
GitHubDelegationRoleArn(props) ==
  FormatArn(IF props.dnsAccountId.def THEN props.dnsAccountId ELSE props.env.account,
            "iam", "role", RoleName(Interp(props.stage)))

\* github-actions-stack.ts:59-128, the role and the statements added to it
GitHubActionsDeployRole(props) ==
  [roleName |-> [prefix |-> "github-actions-", repoOwner |-> Interp(props.repoOwner),
                 repoName |-> Interp(props.repoName), suffix |-> "-role"],
   assumedBy |->
     [federated |-> "GitHubOIDCProvider",
      action |-> "sts:AssumeRoleWithWebIdentity",
      StringEquals |-> [aud |-> "sts.amazonaws.com"],
      StringLike |-> [sub |-> SubjectClaim(props)]],
   managedPolicies |-> {"PowerUserAccess"},
   assumeRole |-> [actions |-> {"sts:AssumeRole"},
                   resources |-> << GitHubDelegationRoleArn(props) >>]]

\* github-actions-stack.ts constructor; app.ts passes env, repoOwner, repoName
GitHubActionsRoleStack(id, props) ==
  [id |-> id,
   type |-> "GitHubActionsRoleStack",
   env |-> props.env,
   repoOwner |-> props.repoOwner,
   repoName |-> props.repoName,
   dnsAccountId |-> props.dnsAccountId,
   stage |-> props.stage,
   role |-> GitHubActionsDeployRole(props),
   resources |-> {Res(n) : n \in GitHubResources},
   dependsOn |-> {<<Res(d[1]), Res(d[2])>> : d \in GitHubReferences}]

\* the trust policy lets a web identity token assume the role
\* (github-actions-stack.ts:61-72)
MayAssumeWithWebIdentity(role, token) ==
  /\ token.aud = role.assumedBy.StringEquals.aud
  /\ StringLike(token.sub, role.assumedBy.StringLike.sub)

----------------------------------------------------------------------------
(* State *)

VARIABLES
  ctx,          \* CDK context: key -> value given with --context, or undefined
  env,          \* process.env: variable -> value, or undefined
  pc,           \* position in the top-level composition
  config,       \* app.ts:12-24
  idx,          \* index of the running for / forEach loop
  stageAccounts,\* app.ts:45-48, as the sequence of its entries
  stacks,       \* the stacks declared so far, in declaration order
  error,        \* the Error thrown, if any
  status,       \* provisioning engine: <<stack, resource>> -> status
  validationRecords, \* stacks whose certificate validation records were created by hand
  dnsRoles,     \* the delegation roles that exist in the DNS account
  rootRecords,  \* record names written into the root zone
  certProps     \* the props a caller gives to RootCertificateStack

vars ==
  <<ctx, env, pc, config, idx, stageAccounts, stacks, error,
    status, validationRecords, dnsRoles, rootRecords, certProps>>

synthVars == <<ctx, env, pc, config, idx, stageAccounts, stacks, error, certProps>>

NoProps == <<>>

deployVars == <<status, validationRecords, dnsRoles, rootRecords>>

NoError == [thrown |-> FALSE, field |-> "", contextHint |-> "", envHint |-> ""]

----------------------------------------------------------------------------
(* The top-level composition: infra/bin/app.ts *)

\* app.node.tryGetContext(key)
tryGetContext(key) == ctx[key]

\* process.env[name]
ProcessEnv(name) == env[name]

\* app.ts:12-24
LoadedConfig ==
  [k \in ConfigKeys |->
     IF k = "region"
     THEN Or(tryGetContext(k), Str(UsEast1))
     ELSE Or(tryGetContext(k), ProcessEnv(EnvVarOf[k]))]

\* app.ts:38-41, the Error thrown for a field
MissingError(field) ==
  [thrown |-> TRUE, field |-> field, contextHint |-> field, envHint |-> UpperOf[field]]

\* stageAccounts with the two accounts exchanged
StageAccountsSwapped(cfg) ==
  << [stageName |-> gamma, account |-> cfg["prodAccount"]],
     [stageName |-> prod, account |-> cfg["gammaAccount"]] >>

\* app.ts:45-48
StageAccountsOf(cfg) ==
  << [stageName |-> gamma, account |-> cfg["gammaAccount"]],
     [stageName |-> prod, account |-> cfg["prodAccount"]] >>

\* stageAccounts[key] on a Record<string, string>
Lookup(entries, key) ==
  IF \E k \in 1..Len(entries) : entries[k].stageName = key
  THEN entries[CHOOSE k \in 1..Len(entries) : entries[k].stageName = key].account
  ELSE Undefined

\* app.ts:62
stages == << <<"G","a","m","m","a">>, <<"P","r","o","d">> >>

\* app.ts:52-59
DnsStackProps(cfg, accounts) ==
  [env |-> [account |-> cfg["dnsAccount"], region |-> cfg["region"]],
   domainName |-> Interp(cfg["domainName"]),
   trustedAccounts |-> accounts]

\* app.ts:65-77
StaticWebsiteStackProps(cfg, accounts, stage) ==
  LET stageName == toLowerCase(stage) IN
  [env |-> [account |-> Lookup(accounts, stageName), region |-> cfg["region"]],
   dnsAccountId |-> cfg["dnsAccount"],
   rootHostedZoneName |-> Interp(cfg["domainName"]),
   domainName |-> stageName \o Dot \o Interp(cfg["domainName"]),
   stageName |-> stageName]

\* app.ts:65, 80-87
GitHubActionsRoleStackProps(cfg, accounts, stage) ==
  LET stageName == toLowerCase(stage) IN
  [env |-> [account |-> Lookup(accounts, stageName), region |-> cfg["region"]],
   repoOwner |-> cfg["repoOwner"],
   repoName |-> cfg["repoName"],
   dnsAccountId |-> Undefined,
   stage |-> Undefined]

\* `${stage}StaticWebsiteStack`, `${stage}GitHubActionsRole`
StackId(stage, suffix) == [stage |-> stage, suffix |-> suffix]

\* app.ts:12-24
LoadConfig ==
  /\ pc = "config"
  /\ config' = LoadedConfig
  /\ idx' = 1
  /\ pc' = "validate"
  /\ UNCHANGED <<certProps, ctx, env, stageAccounts, stacks, error>>
  /\ UNCHANGED deployVars

\* app.ts:36-43, one iteration of the loop
ValidateField ==
  /\ pc = "validate"
  /\ idx <= Len(requiredEnvironmentVars)
  /\ IF ~Truthy(config[requiredEnvironmentVars[idx]])
     THEN /\ error' = MissingError(requiredEnvironmentVars[idx])
          /\ pc' = "error"
          /\ idx' = idx
     ELSE /\ error' = error
          /\ idx' = idx + 1
          /\ pc' = IF idx = Len(requiredEnvironmentVars) THEN "stageAccounts" ELSE "validate"
  /\ UNCHANGED <<certProps, ctx, env, config, stageAccounts, stacks>>
  /\ UNCHANGED deployVars

\* app.ts:45-48
BuildStageAccounts ==
  /\ pc = "stageAccounts"
  /\ stageAccounts' = StageAccountsOf(config)
  /\ pc' = "DnsStack"
  /\ UNCHANGED <<certProps, ctx, env, config, idx, stacks, error>>
  /\ UNCHANGED deployVars

\* a DnsStack whose loop meets the entries of trustedAccounts in any order
DeclareDnsStackAnyOrder ==
  /\ pc = "DnsStack"
  /\ \E p \in Permutations(1..Len(stageAccounts)) :
       stacks' = Append(stacks,
         DnsStack(StackId(<<>>, "DnsStack"),
                  DnsStackProps(config, [k \in 1..Len(stageAccounts) |-> stageAccounts[p[k]]])))
  /\ idx' = 1
  /\ pc' = "StaticWebsiteStack"
  /\ UNCHANGED <<certProps, ctx, env, config, stageAccounts, error>>
  /\ UNCHANGED deployVars

\* app.ts:52-59
DeclareDnsStack ==
  /\ pc = "DnsStack"
  /\ stacks' = Append(stacks, DnsStack(StackId(<<>>, "DnsStack"), DnsStackProps(config, stageAccounts)))
  /\ idx' = 1
  /\ pc' = "StaticWebsiteStack"
  /\ UNCHANGED <<certProps, ctx, env, config, stageAccounts, error>>
  /\ UNCHANGED deployVars

\* app.ts:64-77
DeclareStaticWebsiteStack ==
  /\ pc = "StaticWebsiteStack"
  /\ stacks' = Append(stacks,
       StaticWebsiteStack(StackId(stages[idx], "StaticWebsiteStack"),
                          StaticWebsiteStackProps(config, stageAccounts, stages[idx])))
  /\ pc' = "GitHubActionsRoleStack"
  /\ UNCHANGED <<certProps, ctx, env, config, idx, stageAccounts, error>>
  /\ UNCHANGED deployVars

\* app.ts:79-88
DeclareGitHubActionsRoleStack ==
  /\ pc = "GitHubActionsRoleStack"
  /\ stacks' = Append(stacks,
       GitHubActionsRoleStack(StackId(stages[idx], "GitHubActionsRole"),
                              GitHubActionsRoleStackProps(config, stageAccounts, stages[idx])))
  /\ idx' = idx + 1
  /\ pc' = IF idx = Len(stages) THEN "synth" ELSE "StaticWebsiteStack"
  /\ UNCHANGED <<certProps, ctx, env, config, stageAccounts, error>>
  /\ UNCHANGED deployVars

\* app.ts:90
Synth ==
  /\ pc = "synth"
  /\ pc' = "done"
  /\ UNCHANGED <<certProps, ctx, env, config, idx, stageAccounts, stacks, error>>
  /\ UNCHANGED deployVars

\* the graph app.ts declares from a validated configuration
Compose(cfg) ==
  LET accounts == StageAccountsOf(cfg) IN
  << DnsStack(StackId(<<>>, "DnsStack"), DnsStackProps(cfg, accounts)),
     StaticWebsiteStack(StackId(stages[1], "StaticWebsiteStack"),
                        StaticWebsiteStackProps(cfg, accounts, stages[1])),
     GitHubActionsRoleStack(StackId(stages[1], "GitHubActionsRole"),
                            GitHubActionsRoleStackProps(cfg, accounts, stages[1])),
     StaticWebsiteStack(StackId(stages[2], "StaticWebsiteStack"),
                        StaticWebsiteStackProps(cfg, accounts, stages[2])),
     GitHubActionsRoleStack(StackId(stages[2], "GitHubActionsRole"),
                            GitHubActionsRoleStackProps(cfg, accounts, stages[2])) >>

\* when the composition is complete the declared stacks are Compose(config)
ComposeAgrees == pc = "done" => stacks = Compose(config)

\* a configuration key departs from "given with --context only"
Varied(c, e, k) ==
  \/ c[k] # Str(CtxValue[k])
  \/ (k # "region" /\ e[EnvVarOf[k]] # Undefined)

UnsetConfig == [k \in ConfigKeys |-> Undefined]

\* what --context may hold for a key: nothing, the empty string, a value
ContextChoice(k, choice) ==
  CASE choice = "absent" -> Undefined
    [] choice = "empty" -> Str(<<>>)
    [] OTHER -> Str(CtxValue[k])

\* the inputs of a run: the keys in V are given in any way, the others with
\* --context only
Inputs(V, c, e) ==
  /\ ctx = [k \in ConfigKeys |->
              IF k \in V THEN ContextChoice(k, c[k]) ELSE Str(CtxValue[k])]
  /\ env = [v \in EnvVars |->
              IF \E k \in V \ {"region"} : EnvVarOf[k] = v /\ e[k]
              THEN Str(EnvValue[v]) ELSE Undefined]

Init ==
  /\ \E V \in SUBSET ConfigKeys :
       /\ Cardinality(V) <= MaxVaried
       /\ \E c \in [V -> {"absent", "empty", "given"}], e \in [V -> BOOLEAN] :
            Inputs(V, c, e)
  /\ pc = "config"
  /\ config = UnsetConfig
  /\ idx = 0
  /\ stageAccounts = <<>>
  /\ stacks = <<>>
  /\ error = NoError
  /\ status = <<>>
  /\ validationRecords = {}
  /\ dnsRoles = {}
  /\ rootRecords = {}
  /\ certProps = NoProps

Next ==
  \/ LoadConfig
  \/ ValidateField
  \/ BuildStageAccounts
  \/ DeclareDnsStack
  \/ DeclareStaticWebsiteStack
  \/ DeclareGitHubActionsRoleStack
  \/ Synth

Spec == Init /\ [][Next]_vars

----------------------------------------------------------------------------
(* The provisioning engine applying the declared graph *)

\* the resources a resource depends on: those it refers to and those added
\* with addDependency
DependenciesOf(stack, r) == {d[2] : d \in {e \in stack.dependsOn : e[1] = r}}

\* the cross-account delegation records of a StaticWebsiteStack
\* (static-website-stack.ts:96-104, 141-150)
DelegationRecords == {Res("DelegationRecord"), Res("subdomainDelegationRecord")}

\* the declaration of a delegation record
DelegationRecordOf(stack, r) ==
  IF r = Res("DelegationRecord")
  THEN stack.delegationRecord
  ELSE stack.crossAccountDelegationRecord

\* the ARN of a role the DNS component created in an account
RoleArn(account, role) == FormatArn(account, "iam", "role", role.roleName)

\* a record written under the ARN alone, whether or not a role exists there
DelegationGrantsUnchecked(stack, record) ==
  {[account |-> record.delegationRole.account,
    role |-> [roleName |-> record.delegationRole.resourceName]]}

\* the delegation grant a record is written with: a role that exists under
\* the ARN given as delegationRole, that the stack's account may assume, and
\* whose policy lets it change the delegated zone's name in the root zone
\* (static-website-stack.ts:100, dns-stack.ts:33, 47-58)
DelegationGrants(stack, record) ==
  {g \in dnsRoles :
     /\ RoleArn(g.account, g.role) = record.delegationRole
     /\ g.role.assumedBy = stack.env.account
     /\ MayChangeRecord(g.role, record.delegatedZoneName)}

\* the certificate's DNS validation records exist: the stack creates them
\* itself only when the validation names a hosted zone
\* (static-website-stack.ts:91-93)
Validated(i) ==
  \/ stacks[i].certificate.validation.hostedZone # "none"
  \/ i \in validationRecords

\* the resources whose creation waits on something outside their stack
Gated(stack, r) ==
  /\ stack.type = "StaticWebsiteStack"
  /\ r \in DelegationRecords \cup {Res("SubdomainCertificate")}

\* a resource may be taken up once all it depends on is created
Ready(i, r) ==
  /\ status[i][r] = "pending"
  /\ \A d \in DependenciesOf(stacks[i], r) : status[i][d] = "created"

\* the engine requests a resource whose creation waits on something outside
\* its stack
Start(i, r) ==
  /\ Gated(stacks[i], r)
  /\ Ready(i, r)
  /\ status' = [status EXCEPT ![i][r] = "in_progress"]
  /\ UNCHANGED <<validationRecords, dnsRoles, rootRecords>>
  /\ UNCHANGED synthVars

\* the engine creates a resource that waits on nothing outside its stack; a
\* delegation role then exists in the DNS account
Create(i, r) ==
  /\ ~Gated(stacks[i], r)
  /\ Ready(i, r)
  /\ status' = [status EXCEPT ![i][r] = "created"]
  /\ dnsRoles' =
       IF stacks[i].type = "DnsStack" /\ r[1] = "CrossAccountDnsManagementRole"
       THEN dnsRoles \cup {[account |-> stacks[i].env.account, role |-> stacks[i].roles[r[2]]]}
       ELSE dnsRoles
  /\ UNCHANGED <<validationRecords, rootRecords>>
  /\ UNCHANGED synthVars

\* the delegation record is written into the root zone with the grant
WriteDelegationRecord(i, r) ==
  /\ stacks[i].type = "StaticWebsiteStack"
  /\ r \in DelegationRecords
  /\ status[i][r] = "in_progress"
  /\ \E g \in DelegationGrants(stacks[i], DelegationRecordOf(stacks[i], r)) :
       rootRecords' = rootRecords \cup
         {[name |-> DelegationRecordOf(stacks[i], r).delegatedZoneName, type |-> "NS",
           via |-> g.role.roleName]}
  /\ status' = [status EXCEPT ![i][r] = "created"]
  /\ UNCHANGED <<validationRecords, dnsRoles>>
  /\ UNCHANGED synthVars

\* README, Manual Actions: somebody creates the validation records of a
\* requested certificate by hand
CreateValidationRecords(i) ==
  /\ stacks[i].type = "StaticWebsiteStack"
  /\ status[i][Res("SubdomainCertificate")] = "in_progress"
  /\ i \notin validationRecords
  /\ validationRecords' = validationRecords \cup {i}
  /\ UNCHANGED <<status, dnsRoles, rootRecords>>
  /\ UNCHANGED synthVars

\* the certificate is issued once its validation records resolve
IssueCertificate(i) ==
  /\ stacks[i].type = "StaticWebsiteStack"
  /\ status[i][Res("SubdomainCertificate")] = "in_progress"
  /\ Validated(i)
  /\ status' = [status EXCEPT ![i][Res("SubdomainCertificate")] = "created"]
  /\ UNCHANGED <<validationRecords, dnsRoles, rootRecords>>
  /\ UNCHANGED synthVars

\* every resource of a stack is created
StackComplete(i) == \A r \in stacks[i].resources : status[i][r] = "created"

\* the configurations deployed: everything given with --context, and the
\* prod account taken from the environment instead
InitDeploy ==
  /\ \E V \in {{}, {"prodAccount"}} :
       Inputs(V, [k \in V |-> "absent"], [k \in V |-> TRUE])
  /\ pc = "done"
  /\ config = LoadedConfig
  /\ idx = Len(stages) + 1
  /\ stageAccounts = StageAccountsOf(config)
  /\ stacks = Compose(config)
  /\ error = NoError
  /\ status = [i \in 1..Len(stacks) |-> [r \in stacks[i].resources |-> "pending"]]
  /\ validationRecords = {}
  /\ dnsRoles = {}
  /\ rootRecords = {}
  /\ certProps = NoProps

NextDeploy ==
  \/ \E i \in 1..Len(stacks) : \E r \in stacks[i].resources : Start(i, r)
  \/ \E i \in 1..Len(stacks) : \E r \in stacks[i].resources : Create(i, r)
  \/ \E i \in 1..Len(stacks) : \E r \in DelegationRecords : WriteDelegationRecord(i, r)
  \/ \E i \in 1..Len(stacks) : CreateValidationRecords(i)
  \/ \E i \in 1..Len(stacks) : IssueCertificate(i)

SpecDeploy == InitDeploy /\ [][NextDeploy]_vars

----------------------------------------------------------------------------
(* The DNS delegation component on its own *)

preprod == <<"p","r","e","p","r","o","d">>

\* the stage names trustedAccounts is keyed with
StageNames == {gamma, prod, preprod}

\* at most this many entries in trustedAccounts
MaxStages == 2

\* at most this many records changed in the root zone
MaxChanges == 2

\* what a record name may put in front of <stage>.<domain>
NamePrefixes == {<<>>, <<"x">>, Www, <<"p","r","e">>}

\* the record names somebody asks to change
RecordNames(domainName) ==
  {domainName, Www \o domainName}
    \cup {p \o s \o Dot \o domainName : p \in NamePrefixes, s \in StageNames}

\* the trustedAccounts given to the component: entries with distinct keys
TrustedAccounts ==
  {ta \in UNION {[1..n -> [stageName : StageNames,
                           account : {Str(CtxValue["gammaAccount"]),
                                      Str(CtxValue["prodAccount"])}]] : n \in 0..MaxStages} :
     \A a, b \in 1..Len(ta) : a # b => ta[a].stageName # ta[b].stageName}

\* the engine takes up the declared DnsStack
DeployDnsStack ==
  /\ pc = "StaticWebsiteStack"
  /\ status = <<>>
  /\ status' = [i \in 1..Len(stacks) |-> [r \in stacks[i].resources |-> "pending"]]
  /\ UNCHANGED <<validationRecords, dnsRoles, rootRecords>>
  /\ UNCHANGED synthVars

\* a principal of the trusted account assumes a delegation role and calls
\* route53:ChangeResourceRecordSets on the root zone (dns-stack.ts:47-58)
ChangeResourceRecordSets(g, name) ==
  /\ g \in dnsRoles
  /\ MayChangeRecord(g.role, name)
  /\ Cardinality(rootRecords) < MaxChanges
  /\ rootRecords' = rootRecords \cup {[name |-> name, type |-> "A", via |-> g.role.roleName]}
  /\ UNCHANGED <<status, validationRecords, dnsRoles>>
  /\ UNCHANGED synthVars

InitDns ==
  /\ \E V \in {{}, {"domainName"}} :
       Inputs(V, [k \in V |-> "absent"], [k \in V |-> TRUE])
  /\ pc = "DnsStack"
  /\ config = LoadedConfig
  /\ idx = Len(requiredEnvironmentVars) + 1
  /\ stageAccounts \in TrustedAccounts
  /\ stacks = <<>>
  /\ error = NoError
  /\ status = <<>>
  /\ validationRecords = {}
  /\ dnsRoles = {}
  /\ rootRecords = {}
  /\ certProps = NoProps

NextDns ==
  \/ DeclareDnsStack
  \/ DeployDnsStack
  \/ \E r \in UNION {stacks[i].resources : i \in 1..Len(stacks)} :
       status # <<>> /\ Create(1, r)
  \/ \E g \in dnsRoles : \E name \in RecordNames(Interp(config["domainName"])) :
       ChangeResourceRecordSets(g, name)

SpecDns == InitDns /\ [][NextDns]_vars

----------------------------------------------------------------------------
(* The root certificate component: infra/lib/certificate-stack.ts *)

\* `{ env: { region: "us-east-1" }, ...props }`: the caller's env, if it gives
\* one, wins over the fixed region
EnvOverriddenByProps(props) ==
  [k \in DOMAIN props \cup {"env"} |->
     IF k \in DOMAIN props THEN props[k] ELSE [region |-> Str(UsEast1)]]

\* certificate-stack.ts:15 `{ ...props, env: { region: "us-east-1" } }`
EnforceUsEast1(props) ==
  [k \in DOMAIN props \cup {"env"} |->
     IF k = "env" THEN [region |-> Str(UsEast1)] ELSE props[k]]

\* the environment a Stack takes from its props
StackEnv(props) ==
  [account |-> IF "env" \in DOMAIN props /\ "account" \in DOMAIN props["env"]
               THEN props["env"]["account"] ELSE Undefined,
   region |-> IF "env" \in DOMAIN props /\ "region" \in DOMAIN props["env"]
              THEN props["env"]["region"] ELSE Undefined]

\* certificate-stack.ts:14-39
RootCertificateStack(id, props) ==
  [id |-> id,
   type |-> "RootCertificateStack",
   env |-> StackEnv(EnforceUsEast1(props)),
   zone |-> [hostedZoneId |-> props["rootHostedZoneId"],
             zoneName |-> props["rootHostedZoneName"]],
   certificate |->
     [domainName |-> props["rootHostedZoneName"],
      subjectAlternativeNames |->
        << <<"*", ".">> \o props["rootHostedZoneName"],
           prod \o Dot \o props["rootHostedZoneName"] >>,
      validation |-> [method |-> "DNS", hostedZone |-> "HostedZone"]],
   resources |-> {Res("MultiDomainCertificate")},
   dependsOn |-> {}]

\* the env a caller may pass: any account, any region, either left out
CallerEnvs ==
  [account : {Undefined} \cup {Str(CtxValue[k]) : k \in {"dnsAccount", "gammaAccount", "prodAccount"}},
   region : {Undefined, Str(UsEast1), Str(CtxValue["region"]), Str(<<"a","p","-","1">>)}]

\* the props a caller may pass, with an env or with none
CallerProps ==
  LET zones == [rootHostedZoneId : {"Z1", "Z2"},
                rootHostedZoneName : {CtxValue["domainName"], EnvValue["DOMAIN_NAME"]}] IN
  zones \cup
    {[k \in {"rootHostedZoneId", "rootHostedZoneName", "env"} |->
        IF k = "env" THEN e ELSE z[k]] : z \in zones, e \in CallerEnvs}

\* new RootCertificateStack(app, "RootCertificateStack", props)
DeclareRootCertificateStack ==
  /\ pc = "RootCertificateStack"
  /\ stacks' = Append(stacks,
       RootCertificateStack(StackId(<<>>, "RootCertificateStack"), certProps))
  /\ pc' = "synth"
  /\ UNCHANGED <<certProps, ctx, env, config, idx, stageAccounts, error>>
  /\ UNCHANGED deployVars

\* the engine takes up the synthesized stack
DeployRootCertificateStack ==
  /\ pc = "done"
  /\ status = <<>>
  /\ status' = [i \in 1..Len(stacks) |-> [r \in stacks[i].resources |-> "pending"]]
  /\ UNCHANGED <<validationRecords, dnsRoles, rootRecords>>
  /\ UNCHANGED synthVars

InitCertificate ==
  /\ Inputs({}, <<>>, <<>>)
  /\ certProps \in CallerProps
  /\ pc = "RootCertificateStack"
  /\ config = LoadedConfig
  /\ idx = 0
  /\ stageAccounts = <<>>
  /\ stacks = <<>>
  /\ error = NoError
  /\ status = <<>>
  /\ validationRecords = {}
  /\ dnsRoles = {}
  /\ rootRecords = {}

NextCertificate ==
  \/ DeclareRootCertificateStack
  \/ Synth
  \/ DeployRootCertificateStack
  \/ \E r \in UNION {stacks[i].resources : i \in 1..Len(stacks)} :
       status # <<>> /\ Create(1, r)

SpecCertificate == InitCertificate /\ [][NextCertificate]_vars

----------------------------------------------------------------------------
(* Properties of the top-level composition *)

\* the declared stacks of a type
StacksOfType(type) == {i \in 1..Len(stacks) : stacks[i].type = type}

\* a field is given neither with --context nor in the environment
Absent(f) == ctx[f] = Undefined /\ env[EnvVarOf[f]] = Undefined

\* a field is given with --context or in the environment
Present(f) == Truthy(ctx[f]) \/ Truthy(env[EnvVarOf[f]])

\* the fields the specification requires
ClaimedRequired ==
  {"dnsAccount", "gammaAccount", "prodAccount", "domainName", "repoOwner", "repoName"}

\* f is the one required field left out
OnlyAbsent(f) ==
  /\ Absent(f)
  /\ \A g \in ClaimedRequired \ {f} : Present(g)

\* C1: when exactly one required field f is absent from both the context and
\* the environment, construction never gets past the validation loop: it is
\* still loading or validating (and can step), or it has thrown the error
\* naming f; no stack is ever declared.
C1_MissingFieldAborts ==
  \A f \in ClaimedRequired :
    OnlyAbsent(f) =>
      /\ stacks = <<>>
      /\ pc \in {"config", "validate", "error"}
      /\ pc \in {"config", "validate"} => ENABLED (LoadConfig \/ ValidateField)
      /\ pc = "error" =>
           /\ error.thrown
           /\ error.field = f
           /\ error.contextHint = f

\* C1 witness: the last required field is the one left out and the error is thrown
C1_Witness == OnlyAbsent("repoName") /\ pc = "error" /\ error.field = "repoName"

\* the account configured for a stage
ConfiguredAccount(stageName) ==
  IF stageName = gamma THEN config["gammaAccount"] ELSE config["prodAccount"]

\* C6: once the composition is complete, every stage of app.ts has exactly one
\* StaticWebsiteStack and exactly one GitHubActionsRoleStack, and the
\* env.account of both is the account configured for that stage.
C6_OneHostingAndOneRolePerStage ==
  pc = "done" =>
    \A k \in 1..Len(stages) :
      \A type \in {"StaticWebsiteStack", "GitHubActionsRoleStack"} :
        LET mine == {i \in StacksOfType(type) : stacks[i].id.stage = stages[k]} IN
        /\ Cardinality(mine) = 1
        /\ \A i \in mine :
             /\ Truthy(stacks[i].env.account)
             /\ stacks[i].env.account = ConfiguredAccount(toLowerCase(stages[k]))

\* C6 witness: the composition is complete with different accounts per stage
C6_Witness ==
  /\ pc = "done"
  /\ Len(stacks) = 5
  /\ config["gammaAccount"] # config["prodAccount"]

\* the names a certificate covers: its domain name and its alternative names
CertificateNames(certificate) ==
  {certificate.domainName}
    \cup {certificate.subjectAlternativeNames[k] :
            k \in 1..Len(certificate.subjectAlternativeNames)}

\* the names bound to a distribution
DistributionNames(distribution) ==
  {distribution.domainNames[k] : k \in 1..Len(distribution.domainNames)}

\* a certificate name covers a host name: the same name, or "*." and the
\* name without its first label
Covers(certName, name) ==
  \/ certName = name
  \/ /\ Len(certName) >= 2
     /\ SubSeq(certName, 1, 2) = <<"*", ".">>
     /\ \E i \in 2..Len(name) :
          /\ name[i] = "."
          /\ \A j \in 1..(i - 1) : name[j] # "."
          /\ SubSeq(name, i + 1, Len(name)) = SubSeq(certName, 3, Len(certName))

\* C7 (as claimed): the prod stage's distribution and certificate both list
\* the bare root domain and www.<root domain>; no other stage lists either.
C7_ProdClaimsRootAndWww ==
  \A i \in StacksOfType("StaticWebsiteStack") :
    LET root == Interp(config["domainName"])
        names == DistributionNames(stacks[i].distribution)
        covered == CertificateNames(stacks[i].certificate) IN
    IF stacks[i].stageName = prod
    THEN {root, Www \o root} \subseteq names /\ {root, Www \o root} \subseteq covered
    ELSE {root, Www \o root} \cap (names \cup covered) = {}

\* C8: every name bound to a stage's distribution is covered by the
\* certificate attached to it.
C8_DistributionNamesCovered ==
  \A i \in StacksOfType("StaticWebsiteStack") :
    /\ stacks[i].distribution.certificate = "SubdomainCertificate"
    /\ \A name \in DistributionNames(stacks[i].distribution) :
         \E certName \in CertificateNames(stacks[i].certificate) :
           Covers(certName, name)

\* C8 witness: the prod stack is declared and binds the root domain too
C8_Witness ==
  \E i \in StacksOfType("StaticWebsiteStack") :
    /\ stacks[i].stageName = prod
    /\ Interp(config["domainName"]) \in DistributionNames(stacks[i].distribution)
    /\ Cardinality(DistributionNames(stacks[i].distribution)) = 2

----------------------------------------------------------------------------
(* Properties of the deployment *)

WebsiteStacks == StacksOfType("StaticWebsiteStack")

\* the resource of the DNS component that is the delegation grant of a stage
GrantResources(stageName) ==
  {<<j, r>> \in UNION {{<<j, r>> : r \in stacks[j].resources} : j \in StacksOfType("DnsStack")} :
     /\ r[1] = "CrossAccountDnsManagementRole"
     /\ stacks[j].roles[r[2]].roleName = RoleName(stageName)}

\* the delegation grant of a stage exists in the configured DNS account
GrantExists(stageName) ==
  \E g \in GrantResources(stageName) :
    /\ status[g[1]][g[2]] = "created"
    /\ stacks[g[1]].env.account = config["dnsAccount"]

C3_CertificateAfterEveryDelegationRecord ==
  \A i \in WebsiteStacks :
    status[i][Res("SubdomainCertificate")] # "pending" =>
      \A r \in DelegationRecords : status[i][r] = "created"

\* C3 (amended): the certificate is not requested until the record
\* DelegationRecord-<stage>, the one it was given a dependency on, is written;
\* the two are never in progress together.
C3_CertificateAfterDelegationRecord ==
  \A i \in WebsiteStacks :
    status[i][Res("SubdomainCertificate")] # "pending" =>
      status[i][Res("DelegationRecord")] = "created"

\* C3 witness: a certificate is requested after DelegationRecord-<stage> was
\* written, while subdomainDelegationRecord is still in progress
C3_Witness ==
  \E i \in WebsiteStacks :
    /\ status[i][Res("SubdomainCertificate")] = "in_progress"
    /\ status[i][Res("DelegationRecord")] = "created"
    /\ status[i][Res("subdomainDelegationRecord")] = "in_progress"

\* C4: a stage's distribution stays pending until the stage's certificate is
\* issued.
C4_DistributionAfterCertificate ==
  \A i \in WebsiteStacks :
    status[i][Res("Distribution")] # "pending" =>
      status[i][Res(stacks[i].distribution.certificate)] = "created"

\* C4 witness: a distribution has been created
C4_Witness ==
  \E i \in WebsiteStacks : status[i][Res("Distribution")] = "created"

\* nothing the engine can do for a stack is enabled
Stalled(i) ==
  /\ \A r \in stacks[i].resources : ~ENABLED Start(i, r) /\ ~ENABLED Create(i, r)
  /\ \A r \in DelegationRecords : ~ENABLED WriteDelegationRecord(i, r)
  /\ ~ENABLED IssueCertificate(i)

\* C5: as long as nobody has created a stage's certificate validation records
\* by hand, the certificate is not issued, the distribution is not created,
\* the stack is not complete and no error has been raised; once the
\* certificate is requested it stays requested.
C5_StallsWithoutValidationRecords ==
  \A i \in WebsiteStacks :
    i \notin validationRecords =>
      /\ status[i][Res("SubdomainCertificate")] # "created"
      /\ ~ENABLED IssueCertificate(i)
      /\ status[i][Res("Distribution")] = "pending"
      /\ ~StackComplete(i)
      /\ ~error.thrown /\ pc # "error"

\* C5 witness: a stage's deployment has come to a halt on its requested
\* certificate, the validation records missing
C5_Witness ==
  \E i \in WebsiteStacks :
    /\ i \notin validationRecords
    /\ status[i][Res("SubdomainCertificate")] = "in_progress"
    /\ status[i][Res("subdomainDelegationRecord")] = "created"
    /\ Stalled(i)

----------------------------------------------------------------------------
(* Properties of the DNS delegation component *)

\* the roles a declared DnsStack holds, each with the entry it was made for
DeclaredRoles ==
  {[stack |-> j, k |-> k] : j \in StacksOfType("DnsStack"), k \in 1..Len(stageAccounts)}

\* the record-name patterns of a role's ChangeResourceRecordSets statement
ChangePatterns(role) ==
  UNION {{role.statements[k].recordNames[j] : j \in 1..Len(role.statements[k].recordNames)} :
           k \in {n \in 1..Len(role.statements) :
                    "route53:ChangeResourceRecordSets" \in role.statements[n].actions}}

CreatedRoles(j) ==
  {g \in dnsRoles : \E k \in 1..Len(stacks[j].roles) : g.role = stacks[j].roles[k]}

\* C15: a DnsStack declares exactly one role per entry of trustedAccounts, the
\* k-th named CrossAccountDnsManagementRole-<stage of entry k> and assumable by
\* the account of entry k; the roles are pairwise different also when two
\* entries have the same account, and once the stack is deployed as many roles
\* exist as there are entries.
C15_OneRolePerEntry ==
  \A j \in StacksOfType("DnsStack") :
    LET roles == stacks[j].roles IN
    /\ Len(roles) = Len(stageAccounts)
    /\ Cardinality({r \in stacks[j].resources : r[1] = "CrossAccountDnsManagementRole"})
         = Len(stageAccounts)
    /\ \A k \in 1..Len(stageAccounts) :
         /\ roles[k].roleName = RoleName(stageAccounts[k].stageName)
         /\ roles[k].assumedBy = stageAccounts[k].account
    /\ \A a, b \in 1..Len(stageAccounts) : a # b => roles[a].roleName # roles[b].roleName
    /\ (status # <<>> /\ StackComplete(j)) =>
         Cardinality(CreatedRoles(j)) = Len(stageAccounts)

\* C15 witness: two stages map to the same account and both roles are created
C15_Witness ==
  /\ StacksOfType("DnsStack") # {}
  /\ Len(stageAccounts) = 2
  /\ stageAccounts[1].account = stageAccounts[2].account
  /\ status # <<>>
  /\ StackComplete(1)
  /\ Cardinality(CreatedRoles(1)) = 2

\* the two delegation records of a StaticWebsiteStack
RecordsOf(stack) == {stack.delegationRecord, stack.crossAccountDelegationRecord}

\* C16: the delegation role ARN of every record of every StaticWebsiteStack
\* that app.ts declares is in the configured DNS account, carries the name
\* CrossAccountDnsManagementRole-<stageName given to the stack>, and is the ARN
\* of a role the DnsStack of the same run declares, letter for letter; that
\* role trusts the account of the stack.
C16_DelegationRoleIsDeclared ==
  \A i \in StacksOfType("StaticWebsiteStack") : \A rec \in RecordsOf(stacks[i]) :
    /\ rec.delegationRole.account = config["dnsAccount"]
    /\ rec.delegationRole.resourceName = RoleName(stacks[i].stageName)
    /\ \E j \in StacksOfType("DnsStack") : \E k \in 1..Len(stacks[j].roles) :
         /\ RoleArn(stacks[j].env.account, stacks[j].roles[k]) = rec.delegationRole
         /\ stacks[j].roles[k].assumedBy = stacks[i].env.account

\* C16 witness: the composition is complete, both stages have their stack, and
\* the stage of the stack's id ("Gamma") differs in case from its stageName
C16_Witness ==
  /\ pc = "done"
  /\ Cardinality(StacksOfType("StaticWebsiteStack")) = Len(stages)
  /\ \A i \in StacksOfType("StaticWebsiteStack") :
       /\ stacks[i].id.stage # stacks[i].stageName
       /\ toLowerCase(stacks[i].id.stage) = stacks[i].stageName

----------------------------------------------------------------------------
(* Properties of the CI role component *)

GitHubStacks == StacksOfType("GitHubActionsRoleStack")

\* C11 (as claimed): the CI role of a stage may assume exactly one role, the
\* stage's CrossAccountDnsManagementRole-<stage> in the configured DNS account.
C11_AssumesOwnDelegationRole ==
  \A i \in GitHubStacks :
    LET granted == {stacks[i].role.assumeRole.resources[k] :
                      k \in 1..Len(stacks[i].role.assumeRole.resources)} IN
    granted = {FormatArn(config["dnsAccount"], "iam", "role",
                         RoleName(toLowerCase(stacks[i].id.stage)))}

\* the owners, repositories and refs a token's subject may name
TokenOwners == {CtxValue["repoOwner"], EnvValue["GITHUB_REPOSITORY_OWNER"],
                CtxValue["repoOwner"] \o <<"x">>}

TokenRepos == {CtxValue["repoName"], EnvValue["REPO_NAME"],
               CtxValue["repoName"] \o <<"x">>, EnvValue["REPO_NAME"] \o <<"-">>}

TokenRefs == {<<"r","e","f",":","m","a","i","n">>, <<"p","r">>}

TokenAudiences == {"sts.amazonaws.com", "api://other"}

\* the subject GitHub puts in a token: repo:<owner>/<repo>:<ref>
TokenSubject(owner, repo, ref) ==
  RepoColon \o owner \o <<"/">> \o repo \o <<":">> \o ref

\* C12: a token may assume a declared CI role if and only if its audience is
\* sts.amazonaws.com and its subject names the configured owner and
\* repository; a token of another owner or repository never may.
C12_TrustScopedToRepository ==
  \A i \in GitHubStacks :
    \A aud \in TokenAudiences, owner \in TokenOwners, repo \in TokenRepos, ref \in TokenRefs :
      MayAssumeWithWebIdentity(stacks[i].role,
                               [aud |-> aud, sub |-> TokenSubject(owner, repo, ref)])
        <=> /\ aud = "sts.amazonaws.com"
            /\ owner = Interp(config["repoOwner"])
            /\ repo = Interp(config["repoName"])

\* C12 witness: a CI role is declared for a repository named in the
\* environment, and a token of that repository may assume it
C12_Witness ==
  \E i \in GitHubStacks :
    /\ config["repoName"] = Str(EnvValue["REPO_NAME"])
    /\ MayAssumeWithWebIdentity(stacks[i].role,
         [aud |-> "sts.amazonaws.com",
          sub |-> TokenSubject(CtxValue["repoOwner"], EnvValue["REPO_NAME"], <<"p","r">>)])

----------------------------------------------------------------------------
(* Properties of the root certificate component *)

\* C13: whatever env the caller passes, account and region or neither, every
\* RootCertificateStack is declared in region us-east-1.
C13_CertificateInUsEast1 ==
  \A i \in StacksOfType("RootCertificateStack") :
    stacks[i].env.region = Str(UsEast1)

\* C13 witness: the stack is declared for a caller that passed an account and
\* another region
C13_Witness ==
  /\ StacksOfType("RootCertificateStack") # {}
  /\ "env" \in DOMAIN certProps
  /\ Truthy(certProps["env"]["account"])
  /\ certProps["env"]["region"] = Str(CtxValue["region"])

====
